---- MODULE Spec2Model ----
(***************************************************************************)
(* fs-helper: ReadDir, a lazily started recursive directory iterator.      *)
(*                                                                         *)
(* The model covers src/lib.rs: the ReadDir value (root, rx,               *)
(* is_multithreaded), the mpsc channel created by run(), the background    *)
(* threads running visit (one thread, recursive descent) or                *)
(* visit_multithreaded (one thread per directory), and Iterator::next.     *)
(*                                                                         *)
(* The file system is a finite ordered tree.  Node 0 is the root           *)
(* directory; the nodes are numbered so that the listing order of a        *)
(* directory is the ascending order of its children (a breadth-first       *)
(* numbering, which every finite ordered tree has).  An entry is the node  *)
(* number; it stands for the absolute path root/.../name of that node.     *)
(*                                                                         *)
(* Threads panic with the default unwinding strategy: a panicking thread   *)
(* ends alone and drops every Sender it holds.                             *)
(***************************************************************************)
EXTENDS Naturals, Sequences, FiniteSets, TLC

\* ------------------------------------------------------------------ bounds
\* largest number of entries below the root
MaxNodes == 3
\* the same, for the behaviours checked under fairness
FairNodes == 2
\* largest number of directories whose listing fails
MaxFail == 1

\* ------------------------------------------------------- the file system
\* the mark of a directory that lists completely: one past every position
NoFail == MaxNodes + 1

\* parent[c] < c and parent nondecreasing: breadth-first numbering
ParentFns(n) ==
  { p \in [1..n -> 0..n] :
      /\ \A c \in 1..n : p[c] < c
      /\ \A c \in 1..n : \A e \in 1..n : c < e => p[c] <= p[e] }

KindFns(n, p) ==
  { k \in [0..n -> BOOLEAN] :
      /\ k[0]
      /\ \A c \in 1..n : k[p[c]] }

\* every ordered tree with at most max entries below the root
TreesUpTo(max) ==
  UNION { { [n |-> n, parent |-> p, is_dir |-> k] : k \in KindFns(n, p) }
          : <<n, p>> \in UNION { { <<m, q>> : q \in ParentFns(m) } : m \in 0..max } }

Trees == TreesUpTo(MaxNodes)

Dirs(t) == { d \in 0..t.n : t.is_dir[d] }
Files(t) == { f \in 0..t.n : ~t.is_dir[f] }
Children(t, d) == { c \in 1..t.n : t.parent[c] = d }

RECURSIVE SortSet(_)
SortSet(S) ==
  IF S = {} THEN <<>>
  ELSE LET m == CHOOSE x \in S : \A y \in S : x <= y
       IN <<m>> \o SortSet(S \ {m})

\* fs::read_dir(dir): the entries of dir in the platform's order
Listing(t, d) == SortSet(Children(t, d))

\* a failure plan: fl[d] = 0, read_dir(d) fails; fl[d] = k > 0, the k-th
\* entry of the iteration is an Err; NoFail, d lists completely
FailPlans(t) ==
  { fl \in [Dirs(t) -> 0..MaxNodes \cup {NoFail}] :
      /\ \A d \in Dirs(t) : fl[d] # NoFail => fl[d] <= Cardinality(Children(t, d))
      /\ Cardinality({ d \in Dirs(t) : fl[d] # NoFail }) <= MaxFail }

\* ----------------------------------------------------------------- paths
Cwd == <<"/", "r">>
RootDir == <<"/", "r">>
Inputs == { <<".">>, <<"/", "r">>, <<"/", "r", ".">>, <<"/", "missing">> }

RECURSIVE DropDots(_)
DropDots(p) ==
  IF p = <<>> THEN <<>>
  ELSE IF Head(p) = "." THEN DropDots(Tail(p))
  ELSE <<Head(p)>> \o DropDots(Tail(p))

Absolute(p) == IF p # <<>> /\ Head(p) = "/" THEN p ELSE Cwd \o p

\* fs::canonicalize: <<>> stands for the io::Error
Canonicalize(p) ==
  LET q == DropDots(Absolute(p))
  IN IF q = RootDir THEN q ELSE <<>>

\* ------------------------------------------------------------------ state
VARIABLES
  tree,              \* the directory tree under the root
  fail,              \* the failure plan of the platform
  walker,            \* "unconstructed", "ready", "error", "dropped"
  root,              \* ReadDir.root
  error,             \* kind of the Error try_new returned, "None" if none
  rx,                \* ReadDir.rx: "None" or "Some"
  is_multithreaded,  \* ReadDir.is_multithreaded
  queue,             \* the channel's buffer
  senders,           \* number of live Sender handles
  threads,           \* the spawned threads, in spawn order
  cpc,               \* the consumer: "idle" or "recv" (inside next)
  last,              \* result of the last completed next()
  delivered,         \* every item returned by next(), in order
  sessions           \* number of calls of run()

vars == <<tree, fail, walker, root, error, rx, is_multithreaded, queue, senders,
          threads, cpc, last, delivered, sessions>>

env == <<tree, fail>>
chan == <<queue, senders>>
cons == <<cpc, last, delivered>>
obj == <<walker, root, error, rx, is_multithreaded, sessions>>

Start(trees) ==
  /\ tree \in trees
  /\ fail \in FailPlans(tree)
  /\ walker = "unconstructed"
  /\ root = <<>>
  /\ error = "None"
  /\ rx = "None"
  /\ is_multithreaded = FALSE
  /\ queue = <<>>
  /\ senders = 0
  /\ threads = <<>>
  /\ cpc = "idle"
  /\ last = <<>>
  /\ delivered = <<>>
  /\ sessions = 0

Init == Start(Trees)
FairInit == Start(TreesUpTo(FairNodes))

\* ----------------------------------------------------------------- errors
\* impl From<io::Error> for Error
FromIoError == "File"

\* a conversion of SendError that reuses the File kind
FromSendError_File == "File"

\* impl From<mpsc::SendError<T>> for Error
FromSendError == "Channel"

\* --------------------------------------------------------------- ReadDir
\* try_new that checks the path but keeps it as given
TryNew_Raw(p) ==
  /\ walker = "unconstructed"
  /\ IF Canonicalize(p) = <<>>
     THEN /\ walker' = "error"
          /\ error' = FromIoError
          /\ UNCHANGED root
     ELSE /\ walker' = "ready"
          /\ root' = p
          /\ UNCHANGED error
  /\ UNCHANGED <<env, rx, is_multithreaded, chan, threads, cons, sessions>>

\* try_new that falls back on the path as given when it does not resolve
TryNew_Partial(p) ==
  /\ walker = "unconstructed"
  /\ walker' = "ready"
  /\ root' = IF Canonicalize(p) = <<>> THEN p ELSE Canonicalize(p)
  /\ UNCHANGED <<env, error, rx, is_multithreaded, chan, threads, cons, sessions>>

\* ReadDir::try_new
TryNew(p) ==
  /\ walker = "unconstructed"
  /\ IF Canonicalize(p) = <<>>
     THEN /\ walker' = "error"
          /\ error' = FromIoError
          /\ UNCHANGED root
     ELSE /\ walker' = "ready"
          /\ root' = Canonicalize(p)
          /\ UNCHANGED error
  /\ UNCHANGED <<env, rx, is_multithreaded, chan, threads, cons, sessions>>

\* a mode setter that discards the running session
SetMode_Restart(b) ==
  /\ walker = "ready"
  /\ cpc = "idle"
  /\ is_multithreaded' = b
  /\ rx' = IF b # is_multithreaded THEN "None" ELSE rx
  /\ UNCHANGED <<env, walker, root, error, chan, threads, cons, sessions>>

\* assignment to the public field is_multithreaded
SetMode(b) ==
  /\ walker = "ready"
  /\ cpc = "idle"
  /\ is_multithreaded' = b
  /\ UNCHANGED <<env, walker, root, error, rx, chan, threads, cons, sessions>>

\* a new thread about to call fn(dir, tx)
NewFrame(d) == [dir |-> d, pc |-> "read_dir", i |-> 0, sub_dirs |-> <<>>]
NewThread(fn, d) ==
  [fn |-> fn, dir |-> d, st |-> "running", err |-> "None", stack |-> <<NewFrame(d)>>]

\* run() on every call of next()
NeedsRun_Always(r) == TRUE

\* the guard of next() on run()
NeedsRun(r) == r = "None"

\* run() that always starts the single worker
RunFn_Single(m) == "visit"

\* the function run() hands to thread::spawn
RunFn(m) == IF m THEN "visit_multithreaded" ELSE "visit"

\* Iterator::next up to the call of recv(), run() included
NextBegin ==
  /\ walker = "ready"
  /\ cpc = "idle"
  /\ cpc' = "recv"
  /\ IF NeedsRun(rx)
     THEN /\ rx' = "Some"
          /\ queue' = <<>>
          /\ senders' = 1
          /\ threads' = Append(threads, NewThread(RunFn(is_multithreaded), 0))
          /\ sessions' = sessions + 1
     ELSE UNCHANGED <<rx, chan, threads, sessions>>
  /\ UNCHANGED <<env, walker, root, error, is_multithreaded, last, delivered>>

\* a receive that does not wait for the senders (try_recv)
RecvReady_NonBlocking(q, s) == TRUE

\* Receiver::recv can return
RecvReady(q, s) == q # <<>> \/ s = 0

\* Receiver::recv: an item while one is buffered, Err once disconnected
RecvResult(q, s) == IF q # <<>> THEN <<"Some", Head(q)>> ELSE <<"None">>

\* next() that returns the buffered item and leaves it in the buffer
NextRecv_Peek ==
  /\ cpc = "recv"
  /\ RecvReady(queue, senders)
  /\ cpc' = "idle"
  /\ last' = RecvResult(queue, senders)
  /\ IF last'[1] = "Some"
     THEN delivered' = Append(delivered, last'[2])
     ELSE UNCHANGED delivered
  /\ UNCHANGED <<env, obj, queue, senders, threads>>

\* next() that forgets the session when recv() reports the end
NextRecv_Restart ==
  /\ cpc = "recv"
  /\ RecvReady(queue, senders)
  /\ cpc' = "idle"
  /\ last' = RecvResult(queue, senders)
  /\ IF last'[1] = "Some"
     THEN /\ queue' = Tail(queue)
          /\ delivered' = Append(delivered, last'[2])
          /\ UNCHANGED rx
     ELSE /\ rx' = "None"
          /\ UNCHANGED <<queue, delivered>>
  /\ UNCHANGED <<env, walker, root, error, is_multithreaded, sessions, senders, threads>>

\* Iterator::next from the return of recv()
NextRecv ==
  /\ cpc = "recv"
  /\ RecvReady(queue, senders)
  /\ cpc' = "idle"
  /\ last' = RecvResult(queue, senders)
  /\ IF last'[1] = "Some"
     THEN /\ queue' = Tail(queue)
          /\ delivered' = Append(delivered, last'[2])
     ELSE UNCHANGED <<queue, delivered>>
  /\ UNCHANGED <<env, obj, senders, threads>>

\* the ReadDir value goes out of scope: the Receiver, if any, is dropped
DropWalker ==
  /\ walker = "ready"
  /\ cpc = "idle"
  /\ walker' = "dropped"
  /\ queue' = <<>>
  /\ UNCHANGED <<env, root, error, rx, is_multithreaded, senders, threads, cons, sessions>>

\* ---------------------------------------------------------------- threads
Top(t) == threads[t].stack[Len(threads[t].stack)]
Running(t, fn) ==
  /\ t \in 1..Len(threads)
  /\ threads[t].st = "running"
  /\ threads[t].fn = fn

SetTop(t, f) ==
  [threads EXCEPT ![t].stack[Len(threads[t].stack)] = f]

\* Sender::send fails once the Receiver is gone
SendFails(w) == w = "dropped"

\* an Err of kind e reaches unwrap(): the thread panics and unwinds
Panic(t, e) ==
  /\ threads' = [threads EXCEPT ![t].st = "panicked", ![t].err = e,
                                ![t].stack = <<>>]
  /\ senders' = senders - Len(threads[t].stack)

\* a send that blocks for as long as the Receiver is gone
Send_Blocks(t, e) ==
  /\ ~SendFails(walker)
  /\ queue' = Append(queue, e)
  /\ threads' = SetTop(t, [Top(t) EXCEPT !.i = Top(t).i + 1])
  /\ UNCHANGED senders

\* tx.send(path)?, lines 57 and 77
Send(t, e) ==
  IF SendFails(walker)
  THEN /\ Panic(t, FromSendError)
       /\ UNCHANGED queue
  ELSE /\ queue' = Append(queue, e)
       /\ threads' = SetTop(t, [Top(t) EXCEPT !.i = Top(t).i + 1])
       /\ UNCHANGED senders

\* visit that takes an unreadable directory for an empty one
VisitReadDir_Skip(t) ==
  /\ Running(t, "visit")
  /\ Top(t).pc = "read_dir"
  /\ IF fail[Top(t).dir] = 0
     THEN LET s == threads[t].stack
              rest == SubSeq(s, 1, Len(s) - 1)
          IN /\ threads' = [threads EXCEPT ![t].stack = rest,
                                ![t].st = IF rest = <<>> THEN "done" ELSE "running"]
             /\ senders' = senders - 1
     ELSE /\ threads' = SetTop(t, [Top(t) EXCEPT !.pc = "loop"])
          /\ UNCHANGED senders
  /\ UNCHANGED <<env, obj, queue, cons>>

\* visit, line 51
VisitReadDir(t) ==
  /\ Running(t, "visit")
  /\ Top(t).pc = "read_dir"
  /\ IF fail[Top(t).dir] = 0
     THEN Panic(t, FromIoError)
     ELSE /\ threads' = SetTop(t, [Top(t) EXCEPT !.pc = "loop"])
          /\ UNCHANGED senders
  /\ UNCHANGED <<env, obj, queue, cons>>

\* visit that sends every entry, the directories too
VisitEntry_SendsDirs(t) ==
  /\ Running(t, "visit")
  /\ Top(t).pc = "loop"
  /\ Top(t).i < Len(Listing(tree, Top(t).dir))
  /\ LET f == Top(t)
         e == Listing(tree, f.dir)[f.i + 1]
     IN IF fail[f.dir] = f.i + 1
        THEN /\ Panic(t, FromIoError)
             /\ UNCHANGED queue
        ELSE IF SendFails(walker)
        THEN /\ Panic(t, FromSendError)
             /\ UNCHANGED queue
        ELSE /\ queue' = Append(queue, e)
             /\ threads' = SetTop(t, [f EXCEPT !.i = f.i + 1,
                    !.sub_dirs = IF tree.is_dir[e] THEN Append(f.sub_dirs, e)
                                 ELSE f.sub_dirs])
             /\ UNCHANGED senders
  /\ UNCHANGED <<env, obj, cons>>

\* visit that descends into a directory as soon as the loop meets it
VisitEntry_Eager(t) ==
  /\ Running(t, "visit")
  /\ Top(t).pc = "loop"
  /\ Top(t).i < Len(Listing(tree, Top(t).dir))
  /\ LET f == Top(t)
         e == Listing(tree, f.dir)[f.i + 1]
     IN IF fail[f.dir] = f.i + 1
        THEN /\ Panic(t, FromIoError)
             /\ UNCHANGED queue
        ELSE IF tree.is_dir[e]
        THEN /\ threads' = [threads EXCEPT ![t].stack =
                  Append(SetTop(t, [f EXCEPT !.i = f.i + 1])[t].stack, NewFrame(e))]
             /\ senders' = senders + 1
             /\ UNCHANGED queue
        ELSE Send(t, e)
  /\ UNCHANGED <<env, obj, cons>>

\* visit, lines 52-59: one iteration of the loop over the entries
VisitEntry(t) ==
  /\ Running(t, "visit")
  /\ Top(t).pc = "loop"
  /\ Top(t).i < Len(Listing(tree, Top(t).dir))
  /\ LET f == Top(t)
         e == Listing(tree, f.dir)[f.i + 1]
     IN IF fail[f.dir] = f.i + 1
        THEN /\ Panic(t, FromIoError)
             /\ UNCHANGED queue
        ELSE IF tree.is_dir[e]
        THEN /\ threads' = SetTop(t, [f EXCEPT !.i = f.i + 1,
                                               !.sub_dirs = Append(f.sub_dirs, e)])
             /\ UNCHANGED <<queue, senders>>
        ELSE Send(t, e)
  /\ UNCHANGED <<env, obj, cons>>

\* visit that forgets a collected sub_dir instead of visiting it
VisitDescend_Shallow(t) ==
  /\ Running(t, "visit")
  /\ Top(t).pc = "loop"
  /\ Top(t).i = Len(Listing(tree, Top(t).dir))
  /\ Top(t).sub_dirs # <<>>
  /\ threads' = SetTop(t, [Top(t) EXCEPT !.sub_dirs = Tail(Top(t).sub_dirs)])
  /\ UNCHANGED <<env, obj, chan, cons>>

\* visit, lines 60-61: the recursive call on the next sub_dir
VisitDescend(t) ==
  /\ Running(t, "visit")
  /\ Top(t).pc = "loop"
  /\ Top(t).i = Len(Listing(tree, Top(t).dir))
  /\ Top(t).sub_dirs # <<>>
  /\ LET f == Top(t)
     IN threads' = [threads EXCEPT ![t].stack =
          Append(SetTop(t, [f EXCEPT !.sub_dirs = Tail(f.sub_dirs)])[t].stack,
                 NewFrame(Head(f.sub_dirs)))]
  /\ senders' = senders + 1
  /\ UNCHANGED <<env, obj, queue, cons>>

\* visit, line 63: Ok(()), the frame's tx is dropped
VisitReturn(t) ==
  /\ Running(t, "visit")
  /\ Top(t).pc = "loop"
  /\ Top(t).i = Len(Listing(tree, Top(t).dir))
  /\ Top(t).sub_dirs = <<>>
  /\ LET s == threads[t].stack
         rest == SubSeq(s, 1, Len(s) - 1)
     IN threads' = [threads EXCEPT ![t].stack = rest,
                                   ![t].st = IF rest = <<>> THEN "done" ELSE "running"]
  /\ senders' = senders - 1
  /\ UNCHANGED <<env, obj, queue, cons>>

\* a listing failure that ends the whole process (panic = abort)
MTReadDir_AbortAll(t) ==
  /\ Running(t, "visit_multithreaded")
  /\ Top(t).pc = "read_dir"
  /\ IF fail[Top(t).dir] = 0
     THEN /\ threads' = [u \in 1..Len(threads) |->
                           [threads[u] EXCEPT !.st = "panicked", !.stack = <<>>]]
          /\ senders' = 0
     ELSE /\ threads' = SetTop(t, [Top(t) EXCEPT !.pc = "loop"])
          /\ UNCHANGED senders
  /\ UNCHANGED <<env, obj, queue, cons>>

\* visit_multithreaded, line 67
MTReadDir(t) ==
  /\ Running(t, "visit_multithreaded")
  /\ Top(t).pc = "read_dir"
  /\ IF fail[Top(t).dir] = 0
     THEN Panic(t, FromIoError)
     ELSE /\ threads' = SetTop(t, [Top(t) EXCEPT !.pc = "loop"])
          /\ UNCHANGED senders
  /\ UNCHANGED <<env, obj, queue, cons>>

\* visit_multithreaded that spawns two threads for a subdirectory
MTEntry_SpawnsTwice(t) ==
  /\ Running(t, "visit_multithreaded")
  /\ Top(t).pc = "loop"
  /\ Top(t).i < Len(Listing(tree, Top(t).dir))
  /\ LET f == Top(t)
         e == Listing(tree, f.dir)[f.i + 1]
     IN IF fail[f.dir] = f.i + 1
        THEN /\ Panic(t, FromIoError)
             /\ UNCHANGED queue
        ELSE IF tree.is_dir[e]
        THEN /\ threads' = Append(Append(SetTop(t, [f EXCEPT !.i = f.i + 1]),
                                         NewThread("visit_multithreaded", e)),
                                  NewThread("visit_multithreaded", e))
             /\ senders' = senders + 2
             /\ UNCHANGED queue
        ELSE Send(t, e)
  /\ UNCHANGED <<env, obj, cons>>

\* visit_multithreaded that also sends the path of a subdirectory
MTEntry_SendsDirs(t) ==
  /\ Running(t, "visit_multithreaded")
  /\ Top(t).pc = "loop"
  /\ Top(t).i < Len(Listing(tree, Top(t).dir))
  /\ LET f == Top(t)
         e == Listing(tree, f.dir)[f.i + 1]
     IN IF fail[f.dir] = f.i + 1
        THEN /\ Panic(t, FromIoError)
             /\ UNCHANGED queue
        ELSE IF tree.is_dir[e]
        THEN /\ threads' = Append(SetTop(t, [f EXCEPT !.i = f.i + 1]),
                                  NewThread("visit_multithreaded", e))
             /\ senders' = senders + 1
             /\ queue' = Append(queue, e)
        ELSE Send(t, e)
  /\ UNCHANGED <<env, obj, cons>>

\* visit_multithreaded that spawns nothing for a subdirectory
MTEntry_NoSpawn(t) ==
  /\ Running(t, "visit_multithreaded")
  /\ Top(t).pc = "loop"
  /\ Top(t).i < Len(Listing(tree, Top(t).dir))
  /\ LET f == Top(t)
         e == Listing(tree, f.dir)[f.i + 1]
     IN IF fail[f.dir] = f.i + 1
        THEN /\ Panic(t, FromIoError)
             /\ UNCHANGED queue
        ELSE IF tree.is_dir[e]
        THEN /\ threads' = SetTop(t, [f EXCEPT !.i = f.i + 1])
             /\ UNCHANGED <<queue, senders>>
        ELSE Send(t, e)
  /\ UNCHANGED <<env, obj, cons>>

\* visit_multithreaded, lines 68-79: one iteration of the loop
MTEntry(t) ==
  /\ Running(t, "visit_multithreaded")
  /\ Top(t).pc = "loop"
  /\ Top(t).i < Len(Listing(tree, Top(t).dir))
  /\ LET f == Top(t)
         e == Listing(tree, f.dir)[f.i + 1]
     IN IF fail[f.dir] = f.i + 1
        THEN /\ Panic(t, FromIoError)
             /\ UNCHANGED queue
        ELSE IF tree.is_dir[e]
        THEN /\ threads' = Append(SetTop(t, [f EXCEPT !.i = f.i + 1]),
                                  NewThread("visit_multithreaded", e))
             /\ senders' = senders + 1
             /\ UNCHANGED queue
        ELSE Send(t, e)
  /\ UNCHANGED <<env, obj, cons>>

\* a thread that ends without dropping its Sender (a leaked handle)
MTReturn_Leak(t) ==
  /\ Running(t, "visit_multithreaded")
  /\ Top(t).pc = "loop"
  /\ Top(t).i = Len(Listing(tree, Top(t).dir))
  /\ threads' = [threads EXCEPT ![t].stack = <<>>, ![t].st = "done"]
  /\ UNCHANGED senders
  /\ UNCHANGED <<env, obj, queue, cons>>

\* visit_multithreaded, line 80: Ok(()), the thread ends and drops its tx
MTReturn(t) ==
  /\ Running(t, "visit_multithreaded")
  /\ Top(t).pc = "loop"
  /\ Top(t).i = Len(Listing(tree, Top(t).dir))
  /\ threads' = [threads EXCEPT ![t].stack = <<>>, ![t].st = "done"]
  /\ senders' = senders - 1
  /\ UNCHANGED <<env, obj, queue, cons>>

\* one step of thread t
ThreadStep(t) ==
  \/ VisitReadDir(t)
  \/ VisitEntry(t)
  \/ VisitDescend(t)
  \/ VisitReturn(t)
  \/ MTReadDir(t)
  \/ MTEntry(t)
  \/ MTReturn(t)

\* at most one thread per directory is ever alive or finished
MaxThreads == MaxNodes + 1

Next ==
  \/ \E p \in Inputs : TryNew(p)
  \/ \E b \in BOOLEAN : SetMode(b)
  \/ NextBegin
  \/ NextRecv
  \/ DropWalker
  \/ \E t \in 1..MaxThreads : ThreadStep(t)

Spec == Init /\ [][Next]_vars

\* a step of some thread, a step of the consumer inside or into next()
Producers == \E t \in 1..MaxThreads : ThreadStep(t)
Consumer == NextBegin \/ NextRecv

\* the scheduler does not starve the threads as a whole, and the consumer
\* keeps pulling for as long as it owns the iterator
Fairness ==
  /\ WF_vars(Producers)
  /\ WF_vars(Consumer)

FairSpec == FairInit /\ [][Next]_vars /\ Fairness

\* ------------------------------------------------------------ vocabulary
Eos == last = <<"None">>
Started(fn) == threads # <<>> /\ threads[1].fn = fn
NoFailure == \A d \in Dirs(tree) : fail[d] = NoFail
Finished(t) == threads[t].st \in {"done", "panicked"}
AllFinished == \A t \in 1..Len(threads) : Finished(t)
Range(s) == { s[i] : i \in 1..Len(s) }
Distinct(s) == \A i \in 1..Len(s) : \A j \in 1..Len(s) : s[i] = s[j] => i = j
Count(s, x) == Cardinality({ i \in 1..Len(s) : s[i] = x })

IsPrefix(s, r) == Len(s) <= Len(r) /\ s = SubSeq(r, 1, Len(s))

\* a is d or a directory above d
RECURSIVE AtOrAbove(_, _, _)
AtOrAbove(t, a, d) ==
  IF a = d THEN TRUE
  ELSE IF d = 0 THEN FALSE
  ELSE AtOrAbove(t, a, t.parent[d])

\* a is a directory strictly above directory d
Above(t, a, d) == a # d /\ AtOrAbove(t, a, d)

\* the listing of a directory fails above or at the directory of entry f
Cut(t, fl, f) == \E s \in Dirs(t) : fl[s] # NoFail /\ AtOrAbove(t, s, t.parent[f])

\* what one call of visit(d, tx) sends, and whether it returns Ok: the files
\* of d that the loop reaches, then the calls on sub_dirs up to the first Err
RECURSIVE VisitRef(_, _, _)
RECURSIVE VisitAll(_, _, _, _)
VisitRef(t, fl, d) ==
  LET all == Listing(t, d)
      seen == IF fl[d] = NoFail THEN all
              ELSE IF fl[d] = 0 THEN <<>>
              ELSE SubSeq(all, 1, fl[d] - 1)
      IsFile(e) == ~t.is_dir[e]
      IsSub(e) == t.is_dir[e]
  IN IF fl[d] # NoFail
     THEN [out |-> SelectSeq(seen, IsFile), ok |-> FALSE]
     ELSE VisitAll(t, fl, SelectSeq(seen, IsSub), SelectSeq(seen, IsFile))
VisitAll(t, fl, subs, acc) ==
  IF subs = <<>> THEN [out |-> acc, ok |-> TRUE]
  ELSE LET r == VisitRef(t, fl, Head(subs))
       IN IF r.ok THEN VisitAll(t, fl, Tail(subs), acc \o r.out)
          ELSE [out |-> acc \o r.out, ok |-> FALSE]

\* ----------------------------------------------------------------- claims

\* C1: single-worker mode, no listing or send failure: when next() returns
\* the end of the sequence, it has yielded exactly the N files of the tree,
\* each once, and no directory; and once the thread is done, the N files
\* are yielded or buffered and no Sender is left, so that the end follows.
C1_SingleWorkerComplete ==
  /\ (Started("visit") /\ NoFailure /\ Eos) =>
       /\ Len(delivered) = Cardinality(Files(tree))
       /\ Distinct(delivered)
       /\ Range(delivered) = Files(tree)
  /\ (Started("visit") /\ NoFailure /\ walker # "dropped"
        /\ threads[1].st = "done") =>
       /\ senders = 0
       /\ Len(delivered \o queue) = Cardinality(Files(tree))
       /\ Range(delivered \o queue) = Files(tree)

C1_Witness ==
  /\ Started("visit") /\ NoFailure /\ Eos
  /\ Len(delivered) >= 2
  /\ \E f \in Range(delivered) : tree.parent[f] # 0

\* C2: fan-out mode, no failure, any interleaving of the threads: when
\* next() returns the end of the sequence, every file of the tree has been
\* yielded exactly once, and no directory; before that, nothing is yielded
\* or buffered twice.
C2_FanOutComplete ==
  /\ (Started("visit_multithreaded") /\ NoFailure /\ Eos) =>
       /\ \A f \in Files(tree) : Count(delivered, f) = 1
       /\ Range(delivered) \subseteq Files(tree)
  /\ (Started("visit_multithreaded") /\ NoFailure) =>
       /\ Distinct(delivered \o queue)
       /\ Range(delivered \o queue) \subseteq Files(tree)

C2_Witness ==
  /\ Started("visit_multithreaded") /\ NoFailure /\ Eos
  /\ Len(threads) >= 2
  /\ \E i \in 1..Len(delivered) : \E j \in 1..Len(delivered) :
       i < j /\ tree.parent[delivered[j]] = 0 /\ tree.parent[delivered[i]] # 0

\* C3: single-worker mode: a file yielded from a directory below D comes
\* after every file directly in D, all of which have been yielded by then.
C3_SingleWorkerOrder ==
  Started("visit") =>
    \A i \in 1..Len(delivered) : \A a \in Files(tree) :
      Above(tree, tree.parent[a], tree.parent[delivered[i]]) =>
        \E j \in 1..(i - 1) : delivered[j] = a

C3_Witness ==
  /\ Started("visit")
  /\ \E i \in 1..Len(delivered) : \E j \in 1..Len(delivered) :
       /\ i < j
       /\ Above(tree, tree.parent[delivered[i]], tree.parent[delivered[j]])
       /\ \E s \in Dirs(tree) \ {0} :
            /\ tree.parent[s] = tree.parent[delivered[i]]
            /\ s < delivered[i]
            /\ AtOrAbove(tree, s, tree.parent[delivered[j]])

\* C4: fan-out mode under fair scheduling: a consumer that keeps pulling
\* (does not drop the iterator) eventually gets the end of the sequence.
C4_FanOutLiveness ==
  Started("visit_multithreaded") ~> (Eos \/ walker = "dropped")

C4_Witness ==
  /\ Started("visit_multithreaded") /\ Eos
  /\ Len(threads) >= 2
  /\ delivered # <<>>

\* C5: a call of next() returns the end of the sequence exactly when no
\* Sender is left and the buffer is empty, and then every thread has ended.
C5_NoPrematureEnd ==
  [][(cpc = "recv" /\ cpc' = "idle") =>
       /\ (last' = <<"None">>) <=> (senders = 0 /\ queue = <<>>)
       /\ (last' = <<"None">>) => AllFinished]_vars

C5_Witness ==
  /\ Eos
  /\ Len(threads) >= 2
  /\ Len(delivered) >= 2

\* C6: no session before the first next(), exactly one from the first
\* next() on: run() is called once, one root thread exists, rx stays Some.
C6_LazySingleSession ==
  /\ sessions = IF cpc = "recv" \/ last # <<>> THEN 1 ELSE 0
  /\ (rx = "None") <=> (sessions = 0)
  /\ sessions = 0 => threads = <<>> /\ senders = 0
  /\ Cardinality({ t \in 1..Len(threads) : threads[t].dir = 0 }) = sessions

C6_Witness ==
  /\ sessions = 1
  /\ Len(delivered) >= 2
  /\ cpc = "recv"

\* C7: once next() has returned the end of the sequence, every later step
\* leaves it the last result: no item is yielded, no session or thread starts.
C7_EndIsPermanent ==
  [][Eos => (Eos' /\ delivered' = delivered /\ sessions' = sessions
             /\ threads' = threads /\ rx' = rx)]_vars

C7_Witness ==
  /\ Eos
  /\ cpc = "recv"
  /\ delivered # <<>>

\* C8: under fair scheduling, once the iterator is dropped every thread ends.
C8_AbandonmentTerminates ==
  (walker = "dropped") ~> AllFinished

C8_Witness ==
  /\ walker = "dropped"
  /\ ~Eos
  /\ delivered # <<>>
  /\ NoFailure
  /\ AllFinished
  /\ \E t \in 1..Len(threads) : threads[t].st = "panicked"

\* C9: single-worker mode with a listing failure on the way: the items
\* yielded are at every moment a prefix of what visit sends before the
\* failure, exactly that at the end of the sequence; the thread has
\* panicked and left no Sender, and nothing but files is yielded.
C9_SilentTruncation ==
  (Started("visit") /\ ~VisitRef(tree, fail, 0).ok) =>
    /\ IsPrefix(delivered, VisitRef(tree, fail, 0).out)
    /\ Range(delivered) \subseteq Files(tree)
    /\ threads[1].st # "done"
    /\ threads[1].st = "panicked" => senders = 0
    /\ Eos => /\ delivered = VisitRef(tree, fail, 0).out
              /\ threads[1].st = "panicked"

C9_Witness ==
  /\ Started("visit") /\ ~VisitRef(tree, fail, 0).ok
  /\ Eos
  /\ delivered # <<>>
  /\ Len(delivered) < Cardinality(Files(tree))

\* C10: fan-out mode with listing failures: while the iterator lives only
\* threads whose own directory fails to list panic; at the end of the
\* sequence every file with no failing directory above it has been yielded
\* exactly once; nothing but files is yielded; the channel closes once all
\* threads have ended.
C10_FanOutIsolation ==
  (Started("visit_multithreaded") /\ ~NoFailure) =>
    /\ walker # "dropped" =>
         \A t \in 1..Len(threads) :
           threads[t].st = "panicked" => fail[threads[t].dir] # NoFail
    /\ Eos => \A f \in Files(tree) :
                ~Cut(tree, fail, f) => Count(delivered, f) = 1
    /\ Range(delivered) \subseteq Files(tree)
    /\ Distinct(delivered)
    /\ AllFinished => senders = 0

C10_Witness ==
  /\ Started("visit_multithreaded") /\ Eos
  /\ \E t \in 1..Len(threads) : threads[t].st = "panicked" /\ threads[t].dir # 0
  /\ \E t \in 1..Len(threads) : threads[t].st = "done" /\ threads[t].dir # 0
  /\ \E f \in Range(delivered) : tree.parent[f] # 0

\* C11: try_new on a path that does not resolve returns an Error of kind
\* File and nothing else: no ReadDir value (no root, no rx), no channel, no
\* thread, and nothing is ever yielded; a ReadDir value exists only with a
\* root that resolves, and then no Error was returned.
C11_ConstructionFailureClean ==
  /\ walker = "error" =>
       /\ error = "File"
       /\ root = <<>> /\ rx = "None" /\ is_multithreaded = FALSE
       /\ threads = <<>> /\ senders = 0 /\ queue = <<>> /\ sessions = 0
       /\ cpc = "idle" /\ last = <<>> /\ delivered = <<>>
  /\ walker \in {"ready", "dropped"} =>
       /\ error = "None"
       /\ Canonicalize(root) # <<>>
  /\ walker = "unconstructed" => error = "None" /\ threads = <<>> /\ rx = "None"

C11_Witness ==
  /\ walker = "error"
  /\ error = "File"
  /\ Files(tree) # {}

\* C12: a change of is_multithreaded after run() changes nothing else: rx
\* stays Some, no session and no thread starts, the channel and the items
\* yielded stay as they are; every thread runs the function chosen at the
\* start; what a single-worker session sends stays what visit sends.
C12_ModeChangeIgnored ==
  /\ [][(rx = "Some" /\ is_multithreaded' # is_multithreaded) =>
          /\ rx' = "Some" /\ sessions' = sessions
          /\ threads' = threads /\ queue' = queue /\ senders' = senders
          /\ delivered' = delivered /\ last' = last]_vars
  /\ [](/\ sessions <= 1
        /\ \A t \in 1..Len(threads) : threads[t].fn = threads[1].fn)
  /\ []((Started("visit") /\ walker # "dropped") =>
          IsPrefix(delivered \o queue, VisitRef(tree, fail, 0).out))

C12_Witness ==
  /\ rx = "Some"
  /\ Started("visit")
  /\ is_multithreaded
  /\ Eos
  /\ Len(delivered) >= 2

\* C13: from construction on, root is the resolved absolute path of the
\* directory the constructor was given (the same for every path that names
\* it), and no step changes it: no mode change, no next(), no drop.
C13_RootFixed ==
  /\ []((walker \in {"ready", "dropped"}) =>
          /\ root = <<"/", "r">>
          /\ Canonicalize(root) = root)
  /\ []((walker \in {"unconstructed", "error"}) => root = <<>>)
  /\ [][walker # "unconstructed" => root' = root]_vars

C13_Witness ==
  /\ walker = "dropped"
  /\ root = <<"/", "r">>
  /\ is_multithreaded
  /\ delivered # <<>>

RECURSIVE PreOrder(_, _)
RECURSIVE PreOrderAll(_, _)
PreOrder(t, d) ==
  LET IsFile(e) == ~t.is_dir[e]
      IsSub(e) == t.is_dir[e]
  IN SelectSeq(Listing(t, d), IsFile) \o PreOrderAll(t, SelectSeq(Listing(t, d), IsSub))
PreOrderAll(t, subs) ==
  IF subs = <<>> THEN <<>>
  ELSE PreOrder(t, Head(subs)) \o PreOrderAll(t, Tail(subs))

\* C15: single-worker mode with no listing failure: what next() has
\* yielded is at every moment a prefix of the reference sequence of the
\* root, and the whole of it at the end of the sequence.
C15_SingleWorkerSequence ==
  (Started("visit") /\ NoFailure) =>
    /\ IsPrefix(delivered, PreOrder(tree, 0))
    /\ Eos => delivered = PreOrder(tree, 0)

C15_Witness ==
  /\ Started("visit") /\ NoFailure /\ Eos
  /\ \E i \in 1..Len(delivered) : \E j \in 1..Len(delivered) :
       /\ i < j
       /\ tree.parent[delivered[i]] = 0
       /\ tree.parent[delivered[j]] # 0
       /\ tree.parent[delivered[j]] < delivered[i]

C17_OneThreadPerDirectory ==
  Started("visit_multithreaded") =>
    /\ \A t \in 1..Len(threads) :
         /\ threads[t].fn = "visit_multithreaded"
         /\ threads[t].dir \in Dirs(tree)
         /\ Len(threads[t].stack) <= 1
         /\ threads[t].stack # <<>> => threads[t].stack[1].dir = threads[t].dir
    /\ \A t \in 1..Len(threads) : \A u \in 1..Len(threads) :
         threads[t].dir = threads[u].dir => t = u
    /\ (NoFailure /\ walker # "dropped" /\ AllFinished) =>
         /\ Len(threads) = Cardinality(Dirs(tree))
         /\ \A t \in 1..Len(threads) : threads[t].st = "done"

C17_Witness ==
  /\ Started("visit_multithreaded") /\ NoFailure /\ Eos
  /\ AllFinished
  /\ Len(threads) >= 3
  /\ delivered # <<>>

\* C18: try_new fails with kind File and with no other; a thread has an
\* Error exactly when it panicked; kind Channel only once the iterator,
\* with its Receiver, is dropped; kind File only where a listing fails: at
\* the thread's own directory in fan-out mode, on the way of visit in
\* single-worker mode.
C18_ErrorKinds ==
  /\ error \in {"None", "File"}
  /\ (walker = "error") <=> (error = "File")
  /\ \A t \in 1..Len(threads) :
       /\ threads[t].err \in {"None", "File", "Channel"}
       /\ (threads[t].st = "panicked") <=> (threads[t].err # "None")
       /\ threads[t].err = "Channel" => walker = "dropped"
       /\ (threads[t].err = "File" /\ threads[t].fn = "visit_multithreaded") =>
            fail[threads[t].dir] # NoFail
       /\ (threads[t].err = "File" /\ threads[t].fn = "visit") =>
            ~VisitRef(tree, fail, 0).ok

C18_Witness ==
  /\ \E t \in 1..Len(threads) : threads[t].err = "File"
  /\ \E t \in 1..Len(threads) : threads[t].err = "Channel"
  /\ delivered # <<>>

\* C19: try_new leaves is_multithreaded false; a change of it before the
\* first next() starts nothing; the step that sets rx starts one thread, on
\* the root, running visit_multithreaded if is_multithreaded is true at
\* that moment and visit if not; until then there is no thread, no Sender
\* and no session.
C19_StrategyAtFirstPull ==
  /\ [][(walker = "unconstructed" /\ walker' = "ready") =>
          is_multithreaded' = FALSE]_vars
  /\ [][(rx = "None" /\ is_multithreaded' # is_multithreaded) =>
          /\ rx' = "None" /\ threads' = <<>> /\ senders' = 0 /\ sessions' = 0
          /\ cpc' = cpc /\ walker' = walker]_vars
  /\ [][(rx = "None" /\ rx' = "Some") =>
          /\ is_multithreaded' = is_multithreaded
          /\ Len(threads') = 1
          /\ threads'[1].dir = 0
          /\ threads'[1].fn = IF is_multithreaded THEN "visit_multithreaded"
                              ELSE "visit"]_vars
  /\ [](rx = "None" => (threads = <<>> /\ senders = 0 /\ sessions = 0))

C19_Witness ==
  /\ Started("visit_multithreaded")
  /\ ~is_multithreaded
  /\ delivered # <<>>

\* C20: in both modes, with any failure plan, any drop and any
\* interleaving: every item yielded is a file of the tree, none is yielded
\* twice, and in fan-out mode two files of the same directory are yielded
\* in the order of its listing.
C20_NoDuplicatesNoForeign ==
  /\ Range(delivered) \subseteq Files(tree)
  /\ Distinct(delivered)
  /\ Started("visit_multithreaded") =>
       \A i \in 1..Len(delivered) : \A j \in 1..Len(delivered) :
         (i < j /\ tree.parent[delivered[i]] = tree.parent[delivered[j]]) =>
           delivered[i] < delivered[j]

C20_Witness ==
  /\ Started("visit_multithreaded")
  /\ ~NoFailure
  /\ walker = "dropped"
  /\ \E t \in 1..Len(threads) : threads[t].st = "panicked"
  /\ \E i \in 1..Len(delivered) : \E j \in 1..Len(delivered) :
       i < j /\ tree.parent[delivered[i]] = tree.parent[delivered[j]]
====
